---- MODULE Spec2Model ----
(***************************************************************************)
(* State-machine model of the eBay MCP server: the tool-call handler       *)
(* (server.py, handle_call_tool) and the core it calls (ebayAPItool.py):   *)
(* environment resolver, file-backed OAuth token cache, paginating         *)
(* fetcher, response projectors and generic REST invoker.                  *)
(*                                                                         *)
(* Python values are encoded as follows.                                   *)
(*   - an optional value (None / a missing dict key) is <<>>, a present    *)
(*     value v is <<v>>;                                                   *)
(*   - a string that the code inspects character by character (EBAY_ENV,   *)
(*     method, path) is a sequence of one-character (or chunk) strings;    *)
(*   - a timestamp is an integer number of clock ticks.                    *)
(***************************************************************************)
EXTENDS Integers, Sequences, FiniteSets, TLC

VARIABLES
    CLIENT_ID,      \* process environment: os.getenv("CLIENT_ID")
    CLIENT_SECRET,  \* process environment: os.getenv("CLIENT_SECRET")
    EBAY_ENV,       \* process environment: os.getenv("EBAY_ENV")
    tokenFile,      \* content of EBAY_TOKEN_FILE: None, or Some(record)
    now,            \* datetime.now()
    minted,         \* number of tokens the OAuth endpoints have issued
    endpoint,       \* behaviour of the REST endpoint: "exact" or "any"
    total,          \* records the "exact" endpoint holds
    pc,             \* position of the tool call being handled
    name,           \* handle_call_tool: name
    arguments,      \* handle_call_tool: arguments
    access_token,   \* handle_call_tool: access_token
    fetch,          \* locals of _paginate_request
    requests,       \* REST requests issued by the current tool call
    responses,      \* the answers to them, in the same order
    oauthCalls,     \* OAuth POSTs issued by the current tool call
    oauthLog,       \* those POSTs and their answers, in order
    fileReads,      \* reads of the token file by the current tool call
    fileWrites,     \* writes of the token file by the current tool call
    result,         \* what the current tool call handed to the host
    raw_item,       \* a raw record handed to a projector on its own
    projected,      \* None, or the projector applied and what it returned
    racers,         \* two invocations of get_access_token running at once
    disk            \* the token file they share, as the chunks of its text

vars == <<CLIENT_ID, CLIENT_SECRET, EBAY_ENV, tokenFile, now, minted, endpoint,
          total, pc, name, arguments, access_token, fetch, requests,
          responses, oauthCalls, oauthLog, fileReads, fileWrites, result,
          raw_item, projected, racers, disk>>

httpVars == <<requests, responses>>

configVars == <<CLIENT_ID, CLIENT_SECRET, EBAY_ENV>>
worldVars == <<endpoint, total, raw_item, projected, racers, disk>>
countVars == <<oauthCalls, oauthLog, fileReads, fileWrites>>

----------------------------------------------------------------------------
(* Bounds of the exploration *)

MaxTime == 3
MaxExpiresIn == 2
MaxMints == 3
MaxExtra == 1
MaxSmallLimit == 2
MaxPages == 2
MaxChunks == 2

----------------------------------------------------------------------------
(* Python values *)

None == <<>>

Some(v) == <<v>>

\* the test for None alone
FalsyStr_Mut(m) == m = None

\* bool(x) is False for None, "" and 0
FalsyStr(m) == m = None \/ m[1] = ""

FalsyInt(m) == m = None \/ m[1] = 0

FalsySeq(m) == m = None \/ m[1] = <<>>

Min(a, b) == IF a <= b THEN a ELSE b

Max(a, b) == IF a >= b THEN a ELSE b

LowerLetters ==
    <<"a", "b", "c", "d", "e", "f", "g", "h", "i", "j", "k", "l", "m",
      "n", "o", "p", "q", "r", "s", "t", "u", "v", "w", "x", "y", "z">>

UpperLetters ==
    <<"A", "B", "C", "D", "E", "F", "G", "H", "I", "J", "K", "L", "M",
      "N", "O", "P", "Q", "R", "S", "T", "U", "V", "W", "X", "Y", "Z">>

IndexIn(c, letters) ==
    IF \E i \in 1..Len(letters) : letters[i] = c
    THEN CHOOSE i \in 1..Len(letters) : letters[i] = c
    ELSE 0

\* str.lower() and str.upper(), one character at a time
LowerChar(c) ==
    IF IndexIn(c, UpperLetters) > 0 THEN LowerLetters[IndexIn(c, UpperLetters)] ELSE c

UpperChar(c) ==
    IF IndexIn(c, LowerLetters) > 0 THEN UpperLetters[IndexIn(c, LowerLetters)] ELSE c

Lower(s) == [i \in 1..Len(s) |-> LowerChar(s[i])]

Upper(s) == [i \in 1..Len(s) |-> UpperChar(s[i])]

\* str.strip(): leading and trailing blanks removed
RECURSIVE LStrip(_)
LStrip(s) == IF s # <<>> /\ Head(s) = " " THEN LStrip(Tail(s)) ELSE s

RECURSIVE RStrip(_)
RStrip(s) ==
    IF s # <<>> /\ s[Len(s)] = " " THEN RStrip(SubSeq(s, 1, Len(s) - 1)) ELSE s

Strip(s) == RStrip(LStrip(s))

----------------------------------------------------------------------------
(* Environment resolver *)

PRODUCTION == <<"p", "r", "o", "d", "u", "c", "t", "i", "o", "n">>

SANDBOX == <<"s", "a", "n", "d", "b", "o", "x">>

EBAY_ENVIRONMENTS == {PRODUCTION, SANDBOX}

api_base_url(env_name) == <<"api", env_name>>

oauth_url(env_name) == <<"oauth", env_name>>

\* os.getenv("EBAY_ENV", "production").strip().lower()
EnvName(value) == Lower(Strip(IF value = None THEN PRODUCTION ELSE value[1]))

EnvSupported(value) == EnvName(value) \in EBAY_ENVIRONMENTS

----------------------------------------------------------------------------
(* Exceptions and what the host receives *)

Exc(type, msg, detail) == [type |-> type, msg |-> msg, detail |-> detail]

NoResult == [kind |-> "none"]

\* an exception that leaves handle_call_tool
Raised(exc) == [kind |-> "raised", exc |-> exc]

\* [TextContent(type="text", text=f"Error: {exc}")]
ErrorText(exc) == [kind |-> "text", prefix |-> "Error: ", rest |-> exc]

\* [TextContent(type="text", text=str(response_payload))]
PayloadText(payload) == [kind |-> "text", prefix |-> "", rest |-> payload]

----------------------------------------------------------------------------
(* Token cache: get_access_token *)

OAUTH_OK == 200

NoToken == [client_id |-> "", client_secret |-> "", env |-> <<>>, serial |-> 0]

\* The OAuth endpoint of environment env_name answers the client-credentials
\* grant whose Basic header carries client_id:client_secret.
IssueToken(client_id, client_secret, env_name, serial) ==
    [client_id |-> client_id, client_secret |-> client_secret,
     env |-> env_name, serial |-> serial]

\* datetime.isoformat() / datetime.fromisoformat(): the text keeps the full
\* resolution of the timestamp
IsoFormat(t) == [iso |-> t]

FromIsoFormat(text) == text.iso

\* the comparison with the boundary included
TokenValid_Mut(expires_at, t) == expires_at >= t

\* expiration_time > datetime.now()
TokenValid(expires_at, t) == expires_at > t

\* datetime.now() + timedelta(seconds=expires_in)
ExpiresAt(t, expires_in) == t + expires_in

\* the check of the client identifier alone
CredentialsMissing_Mut(client_id, client_secret) == FalsyStr(client_id)

\* not CLIENT_ID or not CLIENT_SECRET
CredentialsMissing(client_id, client_secret) ==
    FalsyStr(client_id) \/ FalsyStr(client_secret)

\* os.path.exists(TOKEN_FILE), then json.load and the expiry comparison
CachedTokenUsable(file, t) ==
    /\ file # None
    /\ TokenValid(FromIsoFormat(file[1].expires_at), t)

\* token_data written with json.dump: the whole file is replaced
TokenData(token, t, expires_in) ==
    [access_token |-> token, expires_at |-> IsoFormat(ExpiresAt(t, expires_in))]

\* the record appended to what the file held
WriteFile_Mut(file, data) == Append(file, data)

\* with open(TOKEN_FILE, "w") as f: json.dump(token_data, f)
WriteFile(file, data) == Some(data)

\* requests.post(oauth_url, headers=..., data=...) with the Basic header of
\* f"{CLIENT_ID}:{CLIENT_SECRET}"
OAuthRequest(client_id, client_secret, env_name) ==
    [url |-> oauth_url(env_name), client_id |-> client_id,
     client_secret |-> client_secret, response |-> None]

\* what the code reads of the answer: status_code, text, json()["expires_in"]
OAuthAnswer(status, expires_in, body) ==
    [status |-> status, expires_in |-> expires_in, body |-> body]

\* json.dump(token_data, f): the text of the record, chunk by chunk; a
\* longer access_token gives a longer text
Serialize(data, size) ==
    [i \in 1..(size + 1) |-> [data |-> data, chunk |-> i, of |-> size + 1]]

\* json.load(file) succeeds on the complete text of one record
Decodable(text) ==
    /\ text # <<>>
    /\ Len(text) = text[1].of
    /\ \A i \in 1..Len(text) : text[i].data = text[1].data /\ text[i].chunk = i

\* open(TOKEN_FILE, "w"): the file is created or truncated
Truncated == Some(<<>>)

\* the buffered text written at offset 0 when the file is closed; what the
\* file holds beyond it stays
WrittenOver(old, text) == text \o SubSeq(old, Len(text) + 1, Len(old))

MissingCredentialError ==
    Exc("ValueError", "Missing CLIENT_ID or CLIENT_SECRET environment variable", <<>>)

UnsupportedEnvError(env_name) == Exc("ValueError", "Unsupported EBAY_ENV", <<env_name>>)

TokenError(status, body) == Exc("RuntimeError", "Error generating token", <<status, body>>)

----------------------------------------------------------------------------
(* Response projectors *)

EmptyDict == [value |-> None, currency |-> None]

\* bool(d) for an optional nested dict: None and {} are false
TruthyDict(m) == m # None /\ m[1] # EmptyDict

\* The raw records of the marketplace, by position in source order.  The
\* shapes rotate: both prices, price only, no price and no seller, an empty
\* currentBidPrice next to a price.
RawItem(pos) ==
    LET shape == pos % 4
        money(v) == Some([value |-> Some(v), currency |-> Some("USD")])
    IN [title |-> Some(pos),
        currentBidPrice |->
            IF shape = 0 THEN money(pos + 1000)
            ELSE IF shape = 3 THEN Some(EmptyDict) ELSE None,
        price |-> IF shape = 2 THEN None ELSE money(pos),
        itemEndDate |-> IF shape = 0 THEN Some("end") ELSE None,
        itemWebUrl |-> Some(<<"web", pos>>),
        itemHref |-> Some(<<"href", pos>>),
        soldDate |-> IF shape = 1 THEN Some("sold") ELSE None,
        buyingOptions |-> IF shape = 0 THEN Some(<<"AUCTION">>) ELSE None,
        condition |-> IF shape = 2 THEN None ELSE Some("Used"),
        seller |-> IF shape = 2 THEN None ELSE Some([username |-> Some("seller")]),
        itemLocation |->
            IF shape = 2 THEN None ELSE Some([postalCode |-> Some("95125")])]

\* amounts of the raw records handed to a projector on their own
BID == 10

PRICE == 7

\* item.get(key, {}) of an optional nested dict, then .get(field)
NestedGet(m, field) == IF m = None THEN None ELSE m[1][field]

_extract_price_fields(item) ==
    LET price_data ==
            IF TruthyDict(item.currentBidPrice) THEN item.currentBidPrice[1]
            ELSE IF TruthyDict(item.price) THEN item.price[1]
            ELSE EmptyDict
    IN <<price_data.value, price_data.currency>>

_format_active_listing(item) ==
    [title |-> item.title,
     price |-> _extract_price_fields(item)[1],
     currency |-> _extract_price_fields(item)[2],
     end_date |-> item.itemEndDate,
     item_url |-> item.itemWebUrl,
     buying_options |-> item.buyingOptions,
     condition |-> item.condition,
     seller_username |-> NestedGet(item.seller, "username"),
     location |-> NestedGet(item.itemLocation, "postalCode")]

_format_sold_listing(item) ==
    LET price_data == IF TruthyDict(item.price) THEN item.price[1] ELSE EmptyDict
    IN [title |-> item.title,
        price |-> price_data.value,
        currency |-> price_data.currency,
        sold_date |-> item.soldDate,
        item_url |-> item.itemHref,
        condition |-> item.condition,
        seller_username |-> NestedGet(item.seller, "username")]

\* no record handed to a projector
NoItem ==
    [title |-> None, currentBidPrice |-> None, price |-> None,
     itemEndDate |-> None, itemWebUrl |-> None, itemHref |-> None,
     soldDate |-> None, buyingOptions |-> None, condition |-> None,
     seller |-> None, itemLocation |-> None]

\* [_format_active_listing(item)] on a record of its own
FormatActive ==
    /\ projected = None
    /\ projected' = Some([by |-> "_format_active_listing",
                          record |-> _format_active_listing(raw_item)])
    /\ UNCHANGED <<configVars, countVars, httpVars, endpoint, total, raw_item,
                   racers, disk, tokenFile, now, minted, pc, name, arguments, access_token,
                   fetch, result>>

\* [_format_sold_listing(item)] on a record of its own
FormatSold ==
    /\ projected = None
    /\ projected' = Some([by |-> "_format_sold_listing",
                          record |-> _format_sold_listing(raw_item)])
    /\ UNCHANGED <<configVars, countVars, httpVars, endpoint, total, raw_item,
                   racers, disk, tokenFile, now, minted, pc, name, arguments, access_token,
                   fetch, result>>

----------------------------------------------------------------------------
(* Paginating fetcher and the search functions *)

PAGE_CEILING == 200

DEFAULT_PAGE_LIMIT == 50

HTTP_ERROR == 400

ACTIVE_PATH == <<"/", "buy/browse/v1/item_summary/search">>

SOLD_PATH == <<"/", "buy/marketplace_insights/v1_beta/item_sales/search">>

NoFetch ==
    [path |-> <<>>, params |-> <<>>, results_key |-> "", max_results |-> 0,
     page_limit |-> 0, collected |-> <<>>, offset |-> 0, stopped |-> FALSE]

_build_browse_filters(buying_options, category_ids) ==
    (IF ~FalsySeq(buying_options)
     THEN <<[key |-> "buyingOptions", values |-> buying_options[1]]>> ELSE <<>>)
    \o (IF ~FalsySeq(category_ids)
        THEN <<[key |-> "categoryIds", values |-> category_ids[1]]>> ELSE <<>>)

\* min(limit, 200)
PageSize(limit) == Min(limit, PAGE_CEILING)

\* params of search_active_listings / search_sold_listings
SearchParams(query, limit, filters, sort) ==
    [q |-> query,
     limit |-> Some(PageSize(limit)),
     filter |-> IF filters # <<>> THEN Some(filters) ELSE None,
     sort |-> IF ~FalsyStr(sort) THEN sort ELSE None]

\* params.get("limit", 50)
PageLimit(params) ==
    IF params.limit = None THEN DEFAULT_PAGE_LIMIT ELSE params.limit[1]

\* collected = [], offset = 0, page_limit = params.get("limit", 50)
PaginateInit(path, params, results_key, max_results) ==
    [path |-> path, params |-> params, results_key |-> results_key,
     max_results |-> max_results, page_limit |-> PageLimit(params),
     collected |-> <<>>, offset |-> 0, stopped |-> FALSE]

\* while len(collected) < max_results
LoopCondition(f) == Len(f.collected) < f.max_results

\* the page limit, whatever is left to collect
CurrentLimit_Mut(page_limit, max_results, n) == page_limit

\* min(page_limit, max_results - len(collected))
CurrentLimit(page_limit, max_results, n) == Min(page_limit, max_results - n)

\* page_params = dict(params); page_params["limit"], page_params["offset"]
PageParams(params, current_limit, offset) ==
    [q |-> params.q, filter |-> params.filter, sort |-> params.sort,
     limit |-> current_limit, offset |-> offset]

\* the status test with the boundary excluded
IsHttpError_Mut(status) == status > HTTP_ERROR

\* response.status_code >= 400
IsHttpError(status) == status >= HTTP_ERROR

\* the page dropped instead of appended
Extend_Mut(collected, page_items) == collected

\* collected.extend(page_items)
Extend(collected, page_items) == collected \o page_items

\* the short-page test left out
ShortPage_Mut(page_items, current_limit) == FALSE

\* len(page_items) < current_limit
ShortPage(page_items, current_limit) == Len(page_items) < current_limit

\* the offset left where it was
NextOffset_Mut(offset, current_limit) == offset

\* offset += current_limit
NextOffset(offset, current_limit) == offset + current_limit

\* the Authorization header left without the token
Bearer_Mut(token) == NoToken

\* "Authorization": f"Bearer {access_token}"
Bearer(token) == token

ApiError(status, body, env_name) ==
    Exc("RuntimeError", "eBay API error", <<status, body, env_name>>)

\* One iteration of the loop on a response that is no HTTP error: the locals
\* after the iteration.
PaginateStep(f, page_items) ==
    LET current_limit ==
            CurrentLimit(f.page_limit, f.max_results, Len(f.collected))
    IN IF page_items = <<>>
       THEN [f EXCEPT !.stopped = TRUE]
       ELSE IF ShortPage(page_items, current_limit)
       THEN [f EXCEPT !.collected = Extend(f.collected, page_items),
                      !.stopped = TRUE]
       ELSE [f EXCEPT !.collected = Extend(f.collected, page_items),
                      !.offset = NextOffset(f.offset, current_limit)]

\* return [_format_active_listing(item) for item in items]
Project(results_key, collected) ==
    [i \in 1..Len(collected) |->
        IF results_key = "itemSummaries"
        THEN _format_active_listing(RawItem(collected[i]))
        ELSE _format_sold_listing(RawItem(collected[i]))]

Listings(records) == [kind |-> "listings", records |-> records]

\* make_ebay_api_request: "No auctions found" when the result is empty
LegacyPayload(records) ==
    IF records = <<>>
    THEN [kind |-> "message", text |-> "No auctions found"]
    ELSE Listings(records)

----------------------------------------------------------------------------
(* The REST endpoint *)

\* the records at positions offset+1 .. offset+k, in source order
Page(offset, k) == [i \in 1..k |-> offset + i]

\* what exists of the requested window
Available(offset, limit) == Max(0, Min(limit, total - offset))

ErrorBodies == {"", "not found"}

ErrorStatuses == {400, 404}

OkResponse(items) == [status |-> 200, body |-> "", items |-> items]

ErrorResponse(status, body) == [status |-> status, body |-> body, items |-> None]

\* sizes of the page an endpoint that honours nothing may send
PageSizes(limit) ==
    {k \in {0, 1, limit - 1, limit} \cup (limit..(limit + MaxExtra)) : k >= 0}

\* the answers to GET ...?limit=&offset=
PageResponses(limit, offset) ==
    IF endpoint = "exact"
    THEN {OkResponse(Some(Page(offset, Available(offset, limit))))}
         \cup (IF Available(offset, limit) = 0 THEN {OkResponse(None)} ELSE {})
    ELSE {OkResponse(None)}
         \cup {OkResponse(Some(Page(offset, k))) : k \in PageSizes(limit)}
         \cup {ErrorResponse(s, b) : s \in ErrorStatuses, b \in ErrorBodies}

----------------------------------------------------------------------------
(* Generic REST invoker *)

\* Python values a decoded body may be: None, a str, a dict
PyNone == [kind |-> "none"]

PyStr(s) == [kind |-> "text", text |-> s]

PyDict(d) == [kind |-> "json", value |-> d]

\* response.text and, where the text is JSON, what response.json() gives
EmptyBody == [text |-> "", json |-> None]

JsonBody == [text |-> "{\"ok\": true}", json |-> Some(PyDict([ok |-> TRUE]))]

TextBody == [text |-> "plain text", json |-> None]

NullBody == [text |-> "null", json |-> Some(PyNone)]

StringBody == [text |-> "\"plain text\"", json |-> Some(PyStr("plain text"))]

RestBodies == {EmptyBody, JsonBody, TextBody, NullBody, StringBody}

RestStatuses == {200, 204, 400, 404}

RestResponses == {[status |-> s, body |-> b] : s \in RestStatuses, b \in RestBodies}

\* path if path.startswith("/") else f"/{path}"
NormalizedPath(path) ==
    IF path # <<>> /\ Head(path) = "/" THEN path ELSE <<"/">> \o path

RestError(status, body, env_name) ==
    Exc("RuntimeError", "eBay REST API error", <<status, body, env_name>>)

\* the value make_ebay_rest_request returns for a response below 400
RestPayload(body) ==
    IF body.text # ""
    THEN IF body.json # None
         THEN body.json[1]
         ELSE PyStr(body.text)
    ELSE PyNone

----------------------------------------------------------------------------
(* Tool calls: handle_call_tool *)

ToolNames ==
    {"list-auction", "list-active-listings", "list-sold-listings", "ebay-api-request"}

SearchTools == {"list-auction", "list-active-listings", "list-sold-listings"}

AMMOUNT_DEFAULT == 1

LIMIT_DEFAULT == 50

\* the empty arguments mapping {}
NoArgs ==
    [query |-> None, limit |-> None, ammount |-> None, buying_options |-> None,
     category_ids |-> None, sort |-> None, method |-> None, path |-> None,
     params |-> None, json_body |-> None]

\* not arguments
ArgumentsMissing(args) == args = None \/ args[1] = NoArgs

UnknownToolError(nm) == Exc("ValueError", "Unknown tool", <<nm>>)

MissingArgumentsError == Exc("ValueError", "Missing arguments", <<>>)

MissingArgumentError(key) == Exc("ValueError", "Missing", <<key>>)

\* if not ammount: ammount = 1 / if not limit: limit = 50
NormalizedLimit(m, default) == IF FalsyInt(m) THEN default ELSE m[1]

\* the limit a search tool hands to its search function
ToolLimit(nm, args) ==
    IF nm = "list-auction"
    THEN NormalizedLimit(args.ammount, AMMOUNT_DEFAULT)
    ELSE NormalizedLimit(args.limit, LIMIT_DEFAULT)

\* search_active_listings up to the entry of the page loop
search_active_listings(query, limit, buying_options, category_ids, sort) ==
    PaginateInit(
        ACTIVE_PATH,
        SearchParams(
            query, limit,
            _build_browse_filters(
                IF FalsySeq(buying_options)
                THEN Some(<<"AUCTION", "FIXED_PRICE">>) ELSE buying_options,
                category_ids),
            sort),
        "itemSummaries", limit)

\* search_sold_listings up to the entry of the page loop
search_sold_listings(query, limit, category_ids, sort) ==
    PaginateInit(
        SOLD_PATH,
        SearchParams(query, limit, _build_browse_filters(None, category_ids), sort),
        "itemSales", limit)

\* the search a tool starts: list-auction goes through make_ebay_api_request
StartSearch(nm, args) ==
    IF nm = "list-auction"
    THEN search_active_listings(args.query[1], ToolLimit(nm, args),
                                args.buying_options, args.category_ids, None)
    ELSE IF nm = "list-active-listings"
    THEN search_active_listings(args.query[1], ToolLimit(nm, args),
                                args.buying_options, args.category_ids, args.sort)
    ELSE search_sold_listings(args.query[1], ToolLimit(nm, args),
                              args.category_ids, args.sort)

\* except Exception as exc: return [TextContent(text=f"Error: {exc}")]
Caught(exc) ==
    /\ pc' = "done"
    /\ result' = ErrorText(exc)

\* a handler entered with name nm and arguments args
HandleCallTool(nm, args) ==
    /\ pc = "idle"
    /\ minted < MaxMints
    /\ name' = nm
    /\ arguments' = args
    /\ IF nm \notin ToolNames
       THEN pc' = "done" /\ result' = Raised(UnknownToolError(nm))
       ELSE IF ArgumentsMissing(args)
       THEN pc' = "done" /\ result' = Raised(MissingArgumentsError)
       ELSE pc' = "token" /\ result' = NoResult
    /\ UNCHANGED <<configVars, worldVars, countVars, tokenFile, now, minted,
                   access_token, fetch, httpVars>>

\* the same, with the cached token written back to the file when it is used
GetAccessToken_Mut ==
    /\ pc = "token"
    /\ IF CredentialsMissing(CLIENT_ID, CLIENT_SECRET)
       THEN /\ Caught(MissingCredentialError)
            /\ UNCHANGED <<access_token, countVars>>
       ELSE IF ~EnvSupported(EBAY_ENV)
       THEN /\ Caught(UnsupportedEnvError(EnvName(EBAY_ENV)))
            /\ UNCHANGED <<access_token, countVars>>
       ELSE /\ fileReads' = IF tokenFile # None THEN fileReads + 1 ELSE fileReads
            /\ IF CachedTokenUsable(tokenFile, now)
               THEN /\ access_token' = tokenFile[1].access_token
                    /\ fileWrites' = fileWrites + 1
                    /\ pc' = "dispatch"
                    /\ UNCHANGED <<oauthCalls, oauthLog>>
               ELSE /\ oauthCalls' = oauthCalls + 1
                    /\ oauthLog' = Append(oauthLog,
                           OAuthRequest(CLIENT_ID, CLIENT_SECRET,
                                        EnvName(EBAY_ENV)))
                    /\ pc' = "oauth"
                    /\ UNCHANGED <<access_token, fileWrites>>
            /\ UNCHANGED result
    /\ UNCHANGED <<configVars, worldVars, tokenFile, now, minted, name,
                   arguments, fetch, httpVars>>

\* get_access_token up to its return of the cached token or its OAuth POST
GetAccessToken ==
    /\ pc = "token"
    /\ IF CredentialsMissing(CLIENT_ID, CLIENT_SECRET)
       THEN /\ Caught(MissingCredentialError)
            /\ UNCHANGED <<access_token, countVars>>
       ELSE IF ~EnvSupported(EBAY_ENV)
       THEN /\ Caught(UnsupportedEnvError(EnvName(EBAY_ENV)))
            /\ UNCHANGED <<access_token, countVars>>
       ELSE /\ fileReads' = IF tokenFile # None THEN fileReads + 1 ELSE fileReads
            /\ IF CachedTokenUsable(tokenFile, now)
               THEN /\ access_token' = tokenFile[1].access_token
                    /\ pc' = "dispatch"
                    /\ UNCHANGED <<oauthCalls, oauthLog>>
               ELSE /\ oauthCalls' = oauthCalls + 1
                    /\ oauthLog' = Append(oauthLog,
                           OAuthRequest(CLIENT_ID, CLIENT_SECRET,
                                        EnvName(EBAY_ENV)))
                    /\ pc' = "oauth"
                    /\ UNCHANGED access_token
            /\ UNCHANGED <<result, fileWrites>>
    /\ UNCHANGED <<configVars, worldVars, tokenFile, now, minted, name,
                   arguments, fetch, httpVars>>

\* the same, with the cache file removed when the grant is refused
OAuthResponse_Mut(status, expires_in, body) ==
    /\ pc = "oauth"
    /\ oauthLog' = [oauthLog EXCEPT ![Len(oauthLog)].response =
                        Some(OAuthAnswer(status, expires_in, body))]
    /\ IF status = OAUTH_OK
       THEN LET token == IssueToken(CLIENT_ID[1], CLIENT_SECRET[1],
                                    EnvName(EBAY_ENV), minted + 1)
            IN /\ minted' = minted + 1
               /\ tokenFile' = WriteFile(tokenFile, TokenData(token, now, expires_in))
               /\ fileWrites' = fileWrites + 1
               /\ access_token' = token
               /\ pc' = "dispatch"
               /\ UNCHANGED result
       ELSE /\ Caught(TokenError(status, body))
            /\ tokenFile' = None
            /\ UNCHANGED <<minted, fileWrites, access_token>>
    /\ UNCHANGED <<configVars, worldVars, now, name, arguments, fetch, httpVars,
                   oauthCalls, fileReads>>

\* the answer to the OAuth POST, and the rest of get_access_token
OAuthResponse(status, expires_in, body) ==
    /\ pc = "oauth"
    /\ oauthLog' = [oauthLog EXCEPT ![Len(oauthLog)].response =
                        Some(OAuthAnswer(status, expires_in, body))]
    /\ IF status = OAUTH_OK
       THEN LET token == IssueToken(CLIENT_ID[1], CLIENT_SECRET[1],
                                    EnvName(EBAY_ENV), minted + 1)
            IN /\ minted' = minted + 1
               /\ tokenFile' = WriteFile(tokenFile, TokenData(token, now, expires_in))
               /\ fileWrites' = fileWrites + 1
               /\ access_token' = token
               /\ pc' = "dispatch"
               /\ UNCHANGED result
       ELSE /\ Caught(TokenError(status, body))
            /\ UNCHANGED <<minted, tokenFile, fileWrites, access_token>>
    /\ UNCHANGED <<configVars, worldVars, now, name, arguments, fetch, httpVars,
                   oauthCalls, fileReads>>

\* the branch of the tool, up to the first REST request
Dispatch ==
    /\ pc = "dispatch"
    /\ LET args == arguments[1]
       IN IF name \in SearchTools
          THEN IF FalsyStr(args.query)
               THEN Caught(MissingArgumentError("query")) /\ UNCHANGED fetch
               ELSE /\ fetch' = StartSearch(name, args)
                    /\ pc' = "page"
                    /\ UNCHANGED result
          ELSE IF FalsySeq(args.method)
          THEN Caught(MissingArgumentError("method")) /\ UNCHANGED fetch
          ELSE IF FalsySeq(args.path)
          THEN Caught(MissingArgumentError("path")) /\ UNCHANGED fetch
          ELSE pc' = "rest" /\ UNCHANGED <<result, fetch>>
    /\ UNCHANGED <<configVars, worldVars, countVars, tokenFile, now, minted,
                   name, arguments, access_token, httpVars>>

\* one iteration of the page loop of _paginate_request
PaginateRequest ==
    /\ pc = "page"
    /\ ~fetch.stopped
    /\ LoopCondition(fetch)
    /\ LET current_limit ==
               CurrentLimit(fetch.page_limit, fetch.max_results, Len(fetch.collected))
       IN \E response \in PageResponses(current_limit, fetch.offset) :
          /\ requests' = Append(requests,
                 [method |-> <<"G", "E", "T">>,
                  base |-> api_base_url(EnvName(EBAY_ENV)),
                  path |-> fetch.path,
                  token |-> Bearer(access_token),
                  params |-> PageParams(fetch.params, current_limit, fetch.offset)])
          /\ responses' = Append(responses, response)
          /\ IF IsHttpError(response.status)
             THEN /\ Caught(ApiError(response.status, response.body,
                                     EnvName(EBAY_ENV)))
                  /\ UNCHANGED fetch
             ELSE /\ fetch' = PaginateStep(fetch,
                        IF response.items = None THEN <<>> ELSE response.items[1])
                  /\ UNCHANGED <<pc, result>>
    /\ UNCHANGED <<configVars, worldVars, countVars, tokenFile, now, minted,
                   name, arguments, access_token>>

\* return collected, the projection and the handler's return of the payload
PaginateReturn ==
    /\ pc = "page"
    /\ fetch.stopped \/ ~LoopCondition(fetch)
    /\ LET records == Project(fetch.results_key, fetch.collected)
       IN result' = PayloadText(IF name = "list-auction"
                                THEN LegacyPayload(records)
                                ELSE Listings(records))
    /\ pc' = "done"
    /\ UNCHANGED <<configVars, worldVars, countVars, tokenFile, now, minted,
                   name, arguments, access_token, fetch, httpVars>>

\* make_ebay_rest_request and the handler's return of its value
MakeEbayRestRequest(response) ==
    /\ pc = "rest"
    /\ requests' = Append(requests,
           [method |-> Upper(arguments[1].method[1]),
            base |-> api_base_url(EnvName(EBAY_ENV)),
            path |-> NormalizedPath(arguments[1].path[1]),
            token |-> Bearer(access_token),
            params |-> arguments[1].params])
    /\ responses' = Append(responses, response)
    /\ IF IsHttpError(response.status)
       THEN Caught(RestError(response.status, response.body.text, EnvName(EBAY_ENV)))
       ELSE /\ result' = PayloadText(RestPayload(response.body))
            /\ pc' = "done"
    /\ UNCHANGED <<configVars, worldVars, countVars, tokenFile, now, minted,
                   name, arguments, access_token, fetch>>

\* the host takes the result; the next tool call starts afresh
Return ==
    /\ pc = "done"
    /\ pc' = "idle"
    /\ name' = ""
    /\ arguments' = None
    /\ access_token' = NoToken
    /\ fetch' = NoFetch
    /\ requests' = <<>>
    /\ responses' = <<>>
    /\ oauthCalls' = 0
    /\ oauthLog' = <<>>
    /\ fileReads' = 0
    /\ fileWrites' = 0
    /\ result' = NoResult
    /\ UNCHANGED <<configVars, worldVars, tokenFile, now, minted>>

\* time passes
Tick ==
    /\ now < MaxTime
    /\ now' = now + 1
    /\ UNCHANGED <<configVars, worldVars, countVars, tokenFile, minted, pc, name,
                   arguments, access_token, fetch, httpVars, result>>

\* the server process is started again with another environment; the token
\* file stays
Restart(client_id, client_secret, ebay_env) ==
    /\ pc = "idle"
    /\ <<client_id, client_secret, ebay_env>> # <<CLIENT_ID, CLIENT_SECRET, EBAY_ENV>>
    /\ CLIENT_ID' = client_id
    /\ CLIENT_SECRET' = client_secret
    /\ EBAY_ENV' = ebay_env
    /\ UNCHANGED <<worldVars, countVars, tokenFile, now, minted, pc, name,
                   arguments, access_token, fetch, httpVars, result>>

----------------------------------------------------------------------------
(* Two invocations of get_access_token at once, on one token file *)

RaceProcs == {1, 2}

Racer(at) == [pc |-> at, token |-> NoToken, size |-> 0, oauthCalls |-> 0]

NoRacers == [p \in RaceProcs |-> Racer("off")]

\* os.path.exists(TOKEN_FILE), json.load and the expiry comparison
RaceCheck(p) ==
    /\ racers[p].pc = "check"
    /\ IF disk = None
       THEN racers' = [racers EXCEPT ![p].pc = "post"]
       ELSE IF ~Decodable(disk[1])
       THEN racers' = [racers EXCEPT ![p].pc = "raised"]
       ELSE IF TokenValid(FromIsoFormat(disk[1][1].data.expires_at), now)
       THEN racers' = [racers EXCEPT ![p].pc = "returned",
                                     ![p].token = disk[1][1].data.access_token]
       ELSE racers' = [racers EXCEPT ![p].pc = "post"]
    /\ UNCHANGED <<configVars, countVars, httpVars, endpoint, total, raw_item,
                   projected, disk, tokenFile, now, minted, pc, name, arguments,
                   access_token, fetch, result>>

\* requests.post(oauth_url, ...)
RacePost(p) ==
    /\ racers[p].pc = "post"
    /\ racers' = [racers EXCEPT ![p].pc = "answer",
                                ![p].oauthCalls = racers[p].oauthCalls + 1]
    /\ UNCHANGED <<configVars, countVars, httpVars, endpoint, total, raw_item,
                   projected, disk, tokenFile, now, minted, pc, name, arguments,
                   access_token, fetch, result>>

\* the answer to the POST: a token whose text has size chunks, or a refusal
RaceAnswer(p, status, size) ==
    /\ racers[p].pc = "answer"
    /\ IF status = OAUTH_OK
       THEN /\ minted' = minted + 1
            /\ racers' = [racers EXCEPT
                   ![p].pc = "open",
                   ![p].token = IssueToken(CLIENT_ID[1], CLIENT_SECRET[1],
                                           EnvName(EBAY_ENV), minted + 1),
                   ![p].size = size]
       ELSE /\ racers' = [racers EXCEPT ![p].pc = "raised"]
            /\ UNCHANGED minted
    /\ UNCHANGED <<configVars, countVars, httpVars, endpoint, total, raw_item,
                   projected, disk, tokenFile, now, pc, name, arguments,
                   access_token, fetch, result>>

\* with open(TOKEN_FILE, "w") as file
RaceOpen(p) ==
    /\ racers[p].pc = "open"
    /\ disk' = Truncated
    /\ racers' = [racers EXCEPT ![p].pc = "write"]
    /\ UNCHANGED <<configVars, countVars, httpVars, endpoint, total, raw_item,
                   projected, tokenFile, now, minted, pc, name, arguments,
                   access_token, fetch, result>>

\* json.dump(token_data, file), the close of the file, return access_token
RaceWrite(p) ==
    /\ racers[p].pc = "write"
    /\ disk' = Some(WrittenOver(disk[1],
                 Serialize(TokenData(racers[p].token, now, MaxExpiresIn),
                           racers[p].size)))
    /\ racers' = [racers EXCEPT ![p].pc = "returned"]
    /\ UNCHANGED <<configVars, countVars, httpVars, endpoint, total, raw_item,
                   projected, tokenFile, now, minted, pc, name, arguments,
                   access_token, fetch, result>>

----------------------------------------------------------------------------
(* Inputs *)

ClientIds == {None, Some("idA"), Some("idB")}

ClientSecrets == {None, Some(""), Some("secret")}

EnvValues ==
    {None,
     Some(<<" ", "S", "a", "n", "d", "b", "o", "x", " ">>),
     Some(<<"s", "t", "a", "g", "i", "n", "g">>)}

CallNames == ToolNames \cup {"list-everything"}

Queries == {None, Some(""), Some("vintage camera")}

SmallLimits == {None} \cup {Some(n) : n \in (-1)..MaxSmallLimit}

\* limits around the multiples of the page ceiling
AroundPages == {p * PAGE_CEILING + d : p \in 1..MaxPages, d \in (-1)..1}

FetchLimits == {Some(n) : n \in (1..MaxSmallLimit) \cup AroundPages}

Totals == {0, 1} \cup AroundPages \cup {MaxPages * PAGE_CEILING + 2}

SearchOptions ==
    {[buying_options |-> None, category_ids |-> None, sort |-> None],
     [buying_options |-> Some(<<"AUCTION">>), category_ids |-> Some(<<9355>>),
      sort |-> Some("price")]}

Methods == {None, Some(<<"g", "e", "t">>), Some(<<"P", "o", "s", "t">>)}

Paths == {None, Some(<<"/", "sell/inventory">>), Some(<<"sell/inventory">>)}

\* the arguments mappings a host may send to tool nm
SearchArguments(nm, limits) ==
    {Some([NoArgs EXCEPT !.query = q,
                         !.limit = IF nm = "list-auction" THEN None ELSE l,
                         !.ammount = IF nm = "list-auction" THEN l ELSE None,
                         !.buying_options = o.buying_options,
                         !.category_ids = o.category_ids,
                         !.sort = o.sort]) :
        q \in Queries, l \in limits, o \in SearchOptions}

RestArguments ==
    {Some([NoArgs EXCEPT !.method = m, !.path = p]) : m \in Methods, p \in Paths}

ArgumentsFor(nm, limits) ==
    {None, Some(NoArgs)}
    \cup (IF nm = "ebay-api-request" THEN RestArguments
          ELSE SearchArguments(nm, limits))

OAuthStatuses == {200, 401}

----------------------------------------------------------------------------
(* Specifications *)

InitCall ==
    /\ pc = "idle"
    /\ name = ""
    /\ arguments = None
    /\ access_token = NoToken
    /\ fetch = NoFetch
    /\ requests = <<>>
    /\ responses = <<>>
    /\ oauthCalls = 0
    /\ oauthLog = <<>>
    /\ fileReads = 0
    /\ fileWrites = 0
    /\ result = NoResult

\* a server started with any configuration, no token file yet
Init ==
    /\ CLIENT_ID \in ClientIds
    /\ CLIENT_SECRET \in ClientSecrets
    /\ EBAY_ENV \in EnvValues
    /\ tokenFile = None
    /\ now = 0
    /\ minted = 0
    /\ endpoint = "any"
    /\ total = 0
    /\ raw_item = NoItem
    /\ projected = None
    /\ racers = NoRacers
    /\ disk = None
    /\ InitCall

Next ==
    \/ \E nm \in CallNames : \E args \in ArgumentsFor(nm, SmallLimits) :
          HandleCallTool(nm, args)
    \/ GetAccessToken
    \/ \E status \in OAuthStatuses, expires_in \in 1..MaxExpiresIn :
          OAuthResponse(status, expires_in, "invalid_client")
    \/ Dispatch
    \/ PaginateRequest
    \/ PaginateReturn
    \/ \E response \in RestResponses : MakeEbayRestRequest(response)
    \/ Return

Spec == Init /\ [][Next]_vars

\* The paginating fetcher on limits beyond one page, against an endpoint that
\* holds total records and serves exactly the window asked for, or one that
\* honours nothing; the server runs with valid credentials.
FetchInit ==
    /\ CLIENT_ID = Some("idA")
    /\ CLIENT_SECRET = Some("secret")
    /\ EBAY_ENV = None
    /\ tokenFile = None
    /\ now = 0
    /\ minted = 0
    /\ \/ endpoint = "any" /\ total = 0
       \/ endpoint = "exact" /\ total \in Totals
    /\ raw_item = NoItem
    /\ projected = None
    /\ racers = NoRacers
    /\ disk = None
    /\ InitCall

FetchArguments(nm) ==
    {Some([NoArgs EXCEPT !.query = Some("vintage camera"),
                         !.limit = IF nm = "list-auction" THEN None ELSE l,
                         !.ammount = IF nm = "list-auction" THEN l ELSE None]) :
        l \in FetchLimits}

FetchNext ==
    \/ \E nm \in SearchTools : \E args \in FetchArguments(nm) :
          HandleCallTool(nm, args)
    \/ GetAccessToken
    \/ \E status \in OAuthStatuses :
          OAuthResponse(status, MaxExpiresIn, "invalid_client")
    \/ Dispatch
    \/ PaginateRequest
    \/ PaginateReturn
    \/ Return

FetchSpec == FetchInit /\ [][FetchNext]_vars

\* The token cache over time and across restarts of the server with other
\* credentials or another environment; every tool call is the same search.
TokenCall ==
    Some([NoArgs EXCEPT !.query = Some("vintage camera"), !.ammount = Some(1)])

TokenNext ==
    \/ \E nm \in {"list-auction", "list-everything"} :
       \E args \in {None, TokenCall} :
          HandleCallTool(nm, args)
    \/ GetAccessToken
    \/ \E status \in OAuthStatuses, expires_in \in 1..MaxExpiresIn :
          OAuthResponse(status, expires_in, "invalid_client")
    \/ Dispatch
    \/ PaginateRequest
    \/ PaginateReturn
    \/ Return
    \/ Tick
    \/ \E id \in ClientIds, secret \in ClientSecrets, env \in EnvValues :
          Restart(id, secret, env)

TokenSpec == Init /\ [][TokenNext]_vars

\* The token cache over time in one server process: the configuration the
\* server was started with stays.
ClockNext ==
    \/ \E nm \in {"list-auction", "list-everything"} :
       \E args \in {None, TokenCall} :
          HandleCallTool(nm, args)
    \/ GetAccessToken
    \/ \E status \in OAuthStatuses, expires_in \in 1..MaxExpiresIn :
          OAuthResponse(status, expires_in, "invalid_client")
    \/ Dispatch
    \/ PaginateRequest
    \/ PaginateReturn
    \/ Return
    \/ Tick

ClockSpec == Init /\ [][ClockNext]_vars

\* The projectors as pure functions of one raw record, over every
\* combination of present and absent source fields.
Moneys(v) ==
    {None, Some(EmptyDict), Some([value |-> Some(v), currency |-> Some("USD")])}

Optional(v) == {None, Some(v)}

RawItems ==
    {[title |-> t, currentBidPrice |-> b, price |-> p, itemEndDate |-> e,
      itemWebUrl |-> IF u THEN Some("web") ELSE None,
      itemHref |-> IF u THEN Some("href") ELSE None,
      soldDate |-> d, buyingOptions |-> o, condition |-> c, seller |-> s,
      itemLocation |-> l] :
        t \in Optional("camera"), b \in Moneys(BID), p \in Moneys(PRICE),
        e \in Optional("end"), u \in BOOLEAN, d \in Optional("sold"),
        o \in Optional(<<"AUCTION">>), c \in Optional("Used"),
        s \in {None, Some([username |-> None]), Some([username |-> Some("seller")])},
        l \in {None, Some([postalCode |-> Some("95125")])}}

ProjInit ==
    /\ CLIENT_ID = Some("idA")
    /\ CLIENT_SECRET = Some("secret")
    /\ EBAY_ENV = None
    /\ tokenFile = None
    /\ now = 0
    /\ minted = 0
    /\ endpoint = "any"
    /\ total = 0
    /\ raw_item \in RawItems
    /\ projected = None
    /\ racers = NoRacers
    /\ disk = None
    /\ InitCall

ProjNext == FormatActive \/ FormatSold

ProjSpec == ProjInit /\ [][ProjNext]_vars

\* Two invocations of get_access_token start together in a server with
\* valid credentials and no token file; their steps interleave freely.
RaceInit ==
    /\ CLIENT_ID = Some("idA")
    /\ CLIENT_SECRET = Some("secret")
    /\ EBAY_ENV = None
    /\ tokenFile = None
    /\ now = 0
    /\ minted = 0
    /\ endpoint = "any"
    /\ total = 0
    /\ raw_item = NoItem
    /\ projected = None
    /\ racers = [p \in RaceProcs |-> Racer("check")]
    /\ disk = None
    /\ InitCall

RaceNext ==
    \/ \E p \in RaceProcs : RaceCheck(p)
    \/ \E p \in RaceProcs : RacePost(p)
    \/ \E p \in RaceProcs, status \in OAuthStatuses, size \in 1..MaxChunks :
          RaceAnswer(p, status, size)
    \/ \E p \in RaceProcs : RaceOpen(p)
    \/ \E p \in RaceProcs : RaceWrite(p)

RaceSpec == RaceInit /\ [][RaceNext]_vars

----------------------------------------------------------------------------
(* Properties *)

\* what a finished tool call returned
Succeeded == pc = "done" /\ result.kind = "text" /\ result.prefix = ""

Errored == pc = "done" /\ result.kind = "text" /\ result.prefix = "Error: "

\* the titles of the listing records handed to the host; a title is the
\* source position of the record
ReturnedTitles ==
    IF result.rest.kind = "listings"
    THEN [i \in 1..Len(result.rest.records) |-> result.rest.records[i].title[1]]
    ELSE <<>>

ItemCount(response) == IF response.items = None THEN 0 ELSE Len(response.items[1])

RECURSIVE ItemsOf(_)
ItemsOf(rs) ==
    IF rs = <<>> THEN <<>>
    ELSE ItemsOf(SubSeq(rs, 1, Len(rs) - 1))
         \o (IF rs[Len(rs)].items = None THEN <<>> ELSE rs[Len(rs)].items[1])

Unset(value) == value = None \/ value = Some("")

\* C1: the sequence a search returns is never longer than the requested
\* limit, whatever pages the endpoint sends.
C1_LengthWithinLimit ==
    Succeeded =>
        /\ Len(fetch.collected) <= fetch.max_results
        /\ Len(ReturnedTitles) <= fetch.max_results

\* C2 as claimed, credentials present: get_access_token returns the persisted
\* token without a network call exactly when the cache holds a token whose
\* expires_at is strictly later than now; in every other case it issues one
\* OAuth POST and, on success, persists the token it minted.
C2_CacheHitIffValid ==
    [][/\ (/\ pc = "token" /\ pc' # "token"
           /\ ~Unset(CLIENT_ID) /\ ~Unset(CLIENT_SECRET)) =>
            IF tokenFile # None /\ tokenFile[1].expires_at.iso > now
            THEN /\ pc' = "dispatch"
                 /\ access_token' = tokenFile[1].access_token
                 /\ oauthCalls' = 0
                 /\ tokenFile' = tokenFile
            ELSE /\ pc' = "oauth"
                 /\ oauthCalls' = 1
       /\ (pc = "oauth" /\ pc' = "dispatch") =>
            /\ oauthCalls' = 1
            /\ access_token'.serial = minted'
            /\ minted' = minted + 1
            /\ tokenFile' # None
            /\ tokenFile'[1].access_token = access_token'
            /\ fileWrites' = 1
       /\ (pc = "oauth" /\ pc' # "dispatch") => oauthCalls' = oauthCalls
      ]_vars

\* C2 amended: the same, for a call made with credentials present and a
\* supported environment selected; with an unsupported environment the call
\* fails before the cache file is read and before any network call.
C2_CacheHitIffValidSupported ==
    [][/\ (/\ pc = "token" /\ pc' # "token"
           /\ ~Unset(CLIENT_ID) /\ ~Unset(CLIENT_SECRET)
           /\ Lower(Strip(IF EBAY_ENV = None THEN PRODUCTION ELSE EBAY_ENV[1]))
                  \in {PRODUCTION, SANDBOX}) =>
            IF tokenFile # None /\ tokenFile[1].expires_at.iso > now
            THEN /\ pc' = "dispatch"
                 /\ access_token' = tokenFile[1].access_token
                 /\ oauthCalls' = 0
                 /\ tokenFile' = tokenFile
            ELSE /\ pc' = "oauth"
                 /\ oauthCalls' = 1
       /\ (/\ pc = "token" /\ pc' # "token"
           /\ ~Unset(CLIENT_ID) /\ ~Unset(CLIENT_SECRET)
           /\ Lower(Strip(IF EBAY_ENV = None THEN PRODUCTION ELSE EBAY_ENV[1]))
                  \notin {PRODUCTION, SANDBOX}) =>
            /\ pc' = "done"
            /\ result'.kind = "text" /\ result'.prefix = "Error: "
            /\ result'.rest.type = "ValueError"
            /\ oauthCalls' = 0 /\ fileReads' = 0 /\ fileWrites' = 0
            /\ tokenFile' = tokenFile
       /\ (pc = "oauth" /\ pc' = "dispatch") =>
            /\ oauthCalls' = 1
            /\ access_token'.serial = minted'
            /\ minted' = minted + 1
            /\ tokenFile' # None
            /\ tokenFile'[1].access_token = access_token'
            /\ fileWrites' = 1
       /\ (pc = "oauth" /\ pc' # "dispatch") => oauthCalls' = oauthCalls
      ]_vars

\* a call found a cached token whose expires_at equals now and issued the POST
C2_Witness ==
    /\ pc = "oauth"
    /\ oauthCalls = 1
    /\ fileReads = 1
    /\ tokenFile # None
    /\ tokenFile[1].expires_at.iso = now

\* C3: the token a call obtains was issued for the credential pair the call
\* was made with.
C3_TokenOfOwnPair ==
    (pc \in {"dispatch", "page", "rest"}) =>
        /\ access_token.client_id = CLIENT_ID[1]
        /\ access_token.client_secret = CLIENT_SECRET[1]

\* C4: against an endpoint that serves exactly the window asked for, a search
\* with positive limit N returns the first min(N, total) records in order.
C4_ExactPrefix ==
    (Succeeded /\ endpoint = "exact" /\ fetch.max_results > 0) =>
        LET n == IF fetch.max_results <= total THEN fetch.max_results ELSE total
        IN /\ fetch.collected = [i \in 1..n |-> i]
           /\ ReturnedTitles = [i \in 1..n |-> i]

\* a fetch of several pages that ended on the exhaustion of the endpoint
C4_Witness ==
    /\ Succeeded
    /\ endpoint = "exact"
    /\ Len(requests) >= 2
    /\ 0 < total /\ total < fetch.max_results
    /\ Len(fetch.collected) = total

\* C5: a page answered with status >= 400 is the last request of the fetch,
\* and the call ends in an error that carries status, body and environment
\* name and returns no items.
C5_ErrorAborts ==
    \A i \in 1..Len(responses) :
        responses[i].status >= 400 =>
            /\ i = Len(responses)
            /\ Len(requests) = i
            /\ Errored
            /\ result.rest.type = "RuntimeError"
            /\ result.rest.detail =
                   <<responses[i].status, responses[i].body, PRODUCTION>>

\* a fetch that failed on a later page, with items of earlier pages collected
C5_Witness ==
    /\ pc = "done"
    /\ Len(responses) >= 2
    /\ responses[Len(responses)].status >= 400
    /\ fetch.collected # <<>>

\* C6: a page with fewer items than requested is the last request of the
\* fetch, and the fetch returns what was collected.
C6_ShortPageStops ==
    \A i \in 1..Len(responses) :
        (responses[i].status < 400
         /\ ItemCount(responses[i]) < requests[i].params.limit) =>
            /\ i = Len(requests)
            /\ pc \in {"page", "done"}
            /\ fetch.collected = ItemsOf(responses)
            /\ pc = "done" =>
                 /\ Succeeded
                 /\ ReturnedTitles = fetch.collected

\* a fetch ended by a short, non-empty page on its second or later request,
\* below the target
C6_Witness ==
    /\ Succeeded
    /\ Len(requests) >= 2
    /\ ItemCount(responses[Len(responses)]) > 0
    /\ ItemCount(responses[Len(responses)]) < requests[Len(requests)].params.limit
    /\ Len(fetch.collected) < fetch.max_results

\* C7: a fetch with positive max_results issues at most max_results page
\* requests, and every iteration adds items, stops the loop or fails.
C7_BoundedRequests ==
    /\ [](fetch.max_results > 0 => Len(requests) <= fetch.max_results)
    /\ [][(pc = "page" /\ Len(requests') = Len(requests) + 1) =>
             \/ Len(fetch'.collected) > Len(fetch.collected)
             \/ fetch'.stopped
             \/ pc' = "done"]_vars

\* a fetch that took three page requests
C7_Witness ==
    /\ pc = "done"
    /\ fetch.max_results > 0
    /\ Len(requests) >= 3

\* the failures of a tool call
CallFailed ==
    \/ name \notin ToolNames
    \/ ArgumentsMissing(arguments)
    \/ access_token = NoToken
    \/ name \in SearchTools /\ FalsyStr(arguments[1].query)
    \/ name = "ebay-api-request"
       /\ (FalsySeq(arguments[1].method) \/ FalsySeq(arguments[1].path))
    \/ responses # <<>> /\ responses[Len(responses)].status >= 400

\* C8: every failure of a tool call reaches the host as a text result that
\* starts with "Error: ", never as a raised exception.
C8_FailuresAreErrorText == (pc = "done" /\ CallFailed) => Errored

\* C9 as claimed: a tool call made with the client identifier or the client
\* secret unset or empty fails with the error that names the missing
\* credential, with no OAuth call, no REST request and no access to the token
\* file.
C9_MissingCredentialFailsFirst ==
    (pc # "idle" /\ (Unset(CLIENT_ID) \/ Unset(CLIENT_SECRET))) =>
        /\ oauthCalls = 0 /\ requests = <<>>
        /\ fileReads = 0 /\ fileWrites = 0
        /\ pc \in {"token", "done"}
        /\ pc = "done" =>
             /\ Errored
             /\ result.rest.msg =
                    "Missing CLIENT_ID or CLIENT_SECRET environment variable"

\* C9 amended: the same, for a call that names a known tool and carries a
\* non-empty arguments mapping; any other call made without a credential
\* fails on its name or arguments, also without network call or file access.
C9_MissingCredentialFailsFirstKnownTool ==
    (pc # "idle" /\ (Unset(CLIENT_ID) \/ Unset(CLIENT_SECRET))) =>
        /\ oauthCalls = 0 /\ requests = <<>>
        /\ fileReads = 0 /\ fileWrites = 0
        /\ pc \in {"token", "done"}
        /\ pc = "done" =>
             IF /\ name \in {"list-auction", "list-active-listings",
                             "list-sold-listings", "ebay-api-request"}
                /\ arguments # None /\ arguments[1] # NoArgs
             THEN /\ Errored
                  /\ result.rest.msg =
                         "Missing CLIENT_ID or CLIENT_SECRET environment variable"
             ELSE /\ result.kind = "raised"
                  /\ result.exc.msg \in {"Unknown tool", "Missing arguments"}

\* a call without client secret ended in the error while a token file left by
\* an earlier run exists
C9_Witness ==
    /\ Errored
    /\ name \in ToolNames
    /\ ~Unset(CLIENT_ID) /\ Unset(CLIENT_SECRET)
    /\ tokenFile # None
    /\ tokenFile[1].expires_at.iso > now

\* C10: the max_results that reaches the paginating fetcher is positive.
C10_PositiveMaxResults == pc = "page" => fetch.max_results > 0

----------------------------------------------------------------------------
(* Token cache: failures, effects, round trip *)

\* the answer to the OAuth POST of the current tool call
LastAnswer(log) == log[Len(log)].response[1]

OAuthRefused ==
    /\ oauthLog # <<>>
    /\ oauthLog[Len(oauthLog)].response # None
    /\ LastAnswer(oauthLog).status # OAUTH_OK

\* C11: when the OAuth endpoint answers with a failure status,
\* get_access_token has issued exactly one POST and issues no other, the
\* tool call ends with an error that carries the status and the body of that
\* answer, no token is returned, and the cache file is what it was when the
\* call began, so that the next call starts from the same cache state.
C11_OAuthFailureLeavesCache ==
    [][/\ (pc = "oauth" /\ pc' # "oauth" /\ LastAnswer(oauthLog').status # OAUTH_OK)
           => /\ pc' = "done"
              /\ oauthCalls' = 1
              /\ Len(oauthLog') = 1
              /\ result'.kind = "text"
              /\ result'.prefix = "Error: "
              /\ result'.rest.type = "RuntimeError"
              /\ result'.rest.detail = <<LastAnswer(oauthLog').status,
                                         LastAnswer(oauthLog').body>>
              /\ access_token' = NoToken
              /\ requests' = <<>>
              /\ fileWrites' = 0
              /\ minted' = minted
              /\ tokenFile' = tokenFile
       /\ (pc = "token" /\ pc' = "oauth") => tokenFile' = tokenFile
       /\ (pc = "done" /\ OAuthRefused)
           => /\ tokenFile' = tokenFile
              /\ pc' \in {"done", "idle"}
              /\ oauthCalls' \in {0, oauthCalls}]_vars

\* a refused grant while an expired token is on file
C11_Witness ==
    /\ pc = "done"
    /\ OAuthRefused
    /\ oauthCalls = 1
    /\ tokenFile # None
    /\ ~CachedTokenUsable(tokenFile, now)
    /\ Errored

\* C12: one invocation of get_access_token reads the cache file at most
\* once, issues at most one outbound HTTP call and writes the file at most
\* once; the file is written only by an invocation that has minted a new
\* token, and no invocation removes the file.
C12_TokenEffects ==
    [][/\ fileReads' <= 1
       /\ oauthCalls' <= 1
       /\ Len(oauthLog') = oauthCalls'
       /\ fileWrites' <= 1
       /\ (fileWrites' # fileWrites \/ tokenFile' # tokenFile)
           => \/ /\ pc = "oauth"
                 /\ LastAnswer(oauthLog').status = OAUTH_OK
                 /\ minted' = minted + 1
                 /\ access_token'.serial = minted'
                 /\ fileWrites' = 1
                 /\ tokenFile' # None
                 /\ tokenFile'[1].access_token = access_token'
              \/ pc = "done" /\ pc' = "idle" /\ tokenFile' = tokenFile
       /\ tokenFile # None => tokenFile' # None]_vars

\* an invocation that read an expired token, asked for a new one and wrote it
C12_Witness ==
    /\ pc = "dispatch"
    /\ fileReads = 1
    /\ oauthCalls = 1
    /\ fileWrites = 1
    /\ access_token.serial = 2

\* C13: after get_access_token has minted a token with lifetime expires_in,
\* the cache file holds exactly one record, whose access_token is the token
\* returned and whose expires_at is the minting time plus expires_in, with
\* nothing of the previous content; a call made by the same server before
\* that expires_at returns that same token and issues no network call.
C13_MintRoundTrip ==
    [][/\ (pc = "oauth" /\ pc' = "dispatch")
           => /\ Len(tokenFile') = 1
              /\ tokenFile'[1].access_token = access_token'
              /\ access_token'.serial = minted'
              /\ minted' = minted + 1
              /\ FromIsoFormat(tokenFile'[1].expires_at)
                     = now + LastAnswer(oauthLog').expires_in
       /\ (/\ pc = "token"
           /\ pc' # "token"
           /\ tokenFile # None
           /\ now < FromIsoFormat(tokenFile[1].expires_at))
           => /\ pc' = "dispatch"
              /\ access_token' = tokenFile[1].access_token
              /\ access_token'.serial = minted
              /\ oauthCalls' = 0
              /\ oauthLog' = <<>>
              /\ tokenFile' = tokenFile]_vars

\* the second token minted, over the file of the first, returned from the
\* file to a later call
C13_Witness ==
    /\ pc = "dispatch"
    /\ oauthCalls = 0
    /\ fileReads = 1
    /\ access_token.serial = 2
    /\ tokenFile = Some([access_token |-> access_token,
                         expires_at |-> tokenFile[1].expires_at])
    /\ now < FromIsoFormat(tokenFile[1].expires_at)

----------------------------------------------------------------------------
(* Generic REST invoker: outcomes *)

\* a finished ebay-api-request call that reached make_ebay_rest_request
RestCallDone == pc = "done" /\ name = "ebay-api-request" /\ requests # <<>>

\* one HTTP call, the method in upper case, the path with its leading "/"
RestRequestShape ==
    /\ Len(requests) = 1
    /\ Len(responses) = 1
    /\ \A i \in 1..Len(requests[1].method) :
          IndexIn(requests[1].method[i], LowerLetters) = 0
    /\ Lower(requests[1].method) = Lower(arguments[1].method[1])
    /\ Head(requests[1].path) = "/"
    /\ requests[1].path \in {arguments[1].path[1], <<"/">> \o arguments[1].path[1]}

\* the result that belongs to the answer
RestOutcome ==
    LET response == responses[1]
    IN IF response.status >= 400
       THEN /\ Errored
            /\ result.rest.detail =
                   <<response.status, response.body.text, EnvName(EBAY_ENV)>>
       ELSE /\ Succeeded
            /\ IF response.body.text = "" THEN result.rest = PyNone
               ELSE IF response.body.json # None
               THEN result.rest = response.body.json[1]
               ELSE result.rest = PyStr(response.body.text)

\* the result tells which of the three outcomes below 400 happened
RestOutcomeDistinguishable ==
    Succeeded =>
        /\ result.rest = PyNone => responses[1].body.text = ""
        /\ result.rest.kind = "text" => responses[1].body.json = None

\* C14: make_ebay_rest_request issues exactly one HTTP call, with the method
\* in upper case and the path starting with "/", and its result is one of
\* four that can be told apart: an error with status, body and environment
\* name for a status of 400 or above, the decoded value for a non-empty JSON
\* body, the raw text for a non-empty body that is no JSON, and the
\* no-content marker for an empty body.
C14_FourOutcomes ==
    RestCallDone => RestRequestShape /\ RestOutcome /\ RestOutcomeDistinguishable

----------------------------------------------------------------------------
(* Order of the steps of a tool call *)

\* get_access_token has returned a token to the current tool call: from the
\* file without a POST, or from the 200 answer to its POST
TokenReturned ==
    /\ access_token # NoToken
    /\ tokenFile # None
    /\ tokenFile[1].access_token = access_token
    /\ \/ oauthCalls = 0 /\ fileReads = 1
       \/ oauthCalls = 1 /\ LastAnswer(oauthLog).status = OAUTH_OK

\* C15: a tool call acquires the token, then runs the fetcher or the REST
\* invoker, then projects.  No REST request is issued before
\* get_access_token has returned successfully, every REST request carries
\* the token that call returned, and the projection runs only after the
\* page loop has ended without an error.
C15_CallOrder ==
    [][/\ pc' \in {"idle", "token", "oauth", "dispatch"} => requests' = <<>>
       /\ requests' # <<>> =>
              \A i \in 1..Len(requests') : requests'[i].token = access_token'
       /\ (requests' # requests /\ requests' # <<>>)
           => /\ pc \in {"page", "rest"}
              /\ TokenReturned
              /\ access_token' = access_token
              /\ Len(requests') = Len(requests) + 1
       /\ (pc = "page" /\ pc' = "done" /\ result'.prefix = "")
           => /\ TokenReturned
              /\ requests' = requests
              /\ \A i \in 1..Len(responses) : responses[i].status < HTTP_ERROR
              /\ fetch.stopped \/ ~LoopCondition(fetch)
              /\ IF result'.rest.kind = "listings"
                 THEN [i \in 1..Len(result'.rest.records) |->
                          result'.rest.records[i].title[1]] = ItemsOf(responses)
                 ELSE ItemsOf(responses) = <<>>
       /\ (pc = "page" /\ pc' = "done" /\ result'.prefix = "Error: ")
           => responses'[Len(responses')].status >= HTTP_ERROR]_vars

\* a search that minted its token, fetched a page and projected it
C15_Witness ==
    /\ Succeeded
    /\ name = "list-sold-listings"
    /\ oauthCalls = 1
    /\ requests # <<>>
    /\ requests[1].token = access_token
    /\ result.rest.kind = "listings"
    /\ Len(result.rest.records) = 2

----------------------------------------------------------------------------
(* Response projectors *)

\* the nested price the claim names: currentBidPrice if the record has one
\* (with content), else price, else nothing
ClaimedPrice(raw) ==
    IF TruthyDict(raw.currentBidPrice) THEN raw.currentBidPrice[1]
    ELSE IF TruthyDict(raw.price) THEN raw.price[1]
    ELSE EmptyDict

\* C16: both projectors take price and currency from currentBidPrice if the
\* record has it, else from price, else leave them absent; a source field
\* that is missing gives an absent output field, never a default made up.
C16_PriceFallback ==
    projected # None =>
        LET out == projected[1].record
        IN /\ out.price = ClaimedPrice(raw_item).value
           /\ out.currency = ClaimedPrice(raw_item).currency
           /\ out.title = raw_item.title
           /\ out.condition = raw_item.condition
           /\ raw_item.seller = None => out.seller_username = None
           /\ (raw_item.price = None /\ raw_item.currentBidPrice = None)
                  => out.price = None /\ out.currency = None

----------------------------------------------------------------------------
(* Page requests *)

RECURSIVE SumLimits(_)
SumLimits(reqs) ==
    IF reqs = <<>> THEN 0
    ELSE SumLimits(SubSeq(reqs, 1, Len(reqs) - 1)) + reqs[Len(reqs)].params.limit

\* the records received before page request i
CollectedBefore(i) == Len(ItemsOf(SubSeq(responses, 1, i - 1)))

\* C17: every page request of a search with positive limit L carries
\* limit = min(P, L - collected) with P = min(L, 200), so that
\* 1 <= limit <= 200 and limit is at most what is left of the target; its
\* offset is not negative and is the sum of the limits of the page requests
\* before it; every other query parameter is the same on every page.
C17_PageRequests ==
    (name \in SearchTools /\ fetch.max_results > 0) =>
        \A i \in 1..Len(requests) :
            LET L == fetch.max_results
                P == IF L <= PAGE_CEILING THEN L ELSE PAGE_CEILING
                left == L - CollectedBefore(i)
                limit == requests[i].params.limit
            IN /\ limit = (IF P <= left THEN P ELSE left)
               /\ 1 <= limit
               /\ limit <= PAGE_CEILING
               /\ limit <= left
               /\ requests[i].params.offset >= 0
               /\ requests[i].params.offset = SumLimits(SubSeq(requests, 1, i - 1))
               /\ requests[i].params.q = requests[1].params.q
               /\ requests[i].params.filter = requests[1].params.filter
               /\ requests[i].params.sort = requests[1].params.sort
               /\ requests[i].path = requests[1].path
               /\ requests[i].method = requests[1].method

\* the third page request of a search for 401 records asks for the one left
C17_Witness ==
    /\ name \in SearchTools
    /\ fetch.max_results = 2 * PAGE_CEILING + 1
    /\ Len(requests) = 3
    /\ requests[3].params.limit = 1
    /\ requests[3].params.offset = 2 * PAGE_CEILING

----------------------------------------------------------------------------
(* Concurrent invocations *)

\* both invocations found no valid token, minted one and returned
BothMinted ==
    \A p \in RaceProcs : racers[p].pc = "returned" /\ racers[p].oauthCalls = 1

\* the complete text of the record invocation p wrote
RecordOf(p) ==
    Serialize(TokenData(racers[p].token, now, MaxExpiresIn), racers[p].size)

\* C18: when two invocations of get_access_token interleave on one cache
\* file and both find no valid token, each issues exactly one OAuth call and
\* returns the token it minted itself, and afterwards the file holds the
\* complete record of one of them (the one that wrote last), not a mixture
\* of the two.
C18_LastWriterWins ==
    BothMinted =>
        /\ \A p \in RaceProcs : racers[p].token.serial \in 1..minted
        /\ racers[1].token # racers[2].token
        /\ minted = 2
        /\ disk # None
        /\ \E p \in RaceProcs : disk[1] = RecordOf(p)

----------------------------------------------------------------------------
(* Environments *)

\* C19: the token a call obtains was minted by the OAuth endpoint of the
\* environment selected when the call is made, and every REST request goes
\* to the API of the environment whose OAuth endpoint minted its token, also
\* after the server was started again with the other environment on the
\* same cache file.
C19_TokenOfOwnEnvironment ==
    /\ (pc \in {"dispatch", "page", "rest"}) =>
           access_token.env = EnvName(EBAY_ENV)
    /\ \A i \in 1..Len(requests) :
           requests[i].base = api_base_url(requests[i].token.env)

----------------------------------------------------------------------------
(* Tool calls without a required argument *)

\* the call of a known tool lacks an argument the tool requires
LacksRequired ==
    /\ name \in ToolNames
    /\ \/ arguments = None
       \/ name \in SearchTools /\ Unset(arguments[1].query)
       \/ /\ name = "ebay-api-request"
          /\ \/ arguments[1].method \in {None, Some(<<>>)}
             \/ arguments[1].path \in {None, Some(<<>>)}

\* C20: a tool call that lacks a required argument (query for the search
\* tools, method or path for ebay-api-request) never issues a REST request
\* and never succeeds; its only effects outside are those of the token
\* acquisition that runs before the arguments are validated: at most one
\* OAuth call and at most one write of the cache file.
C20_NoRequestWithoutRequired ==
    LacksRequired =>
        /\ requests = <<>>
        /\ responses = <<>>
        /\ pc \notin {"page", "rest"}
        /\ fetch = NoFetch
        /\ oauthCalls <= 1
        /\ fileWrites <= 1
        /\ pc = "done" => ~Succeeded

\* an empty query found missing after a token was minted and written for it
C20_Witness ==
    /\ Errored
    /\ name = "list-sold-listings"
    /\ arguments # None
    /\ arguments[1].query = Some("")
    /\ oauthCalls = 1
    /\ fileWrites = 1
    /\ tokenFile # None
    /\ requests = <<>>

====
